---- MODULE Spec2Model ----
(***************************************************************************)
(* A model of ElmTestRunner (src/src/runner.ts): the streaming result      *)
(* parser, the incremental suite-tree builder, the run orchestration       *)
(* (build task, report process, promise callbacks) and the event replay.   *)
(*                                                                         *)
(* Strings the code computes with (labels, ids, file paths) are sequences  *)
(* of one-character strings, so that concatenation, '/'-joins and          *)
(* replace() are computed and not assumed.  The text written by the report *)
(* process is a sequence of tokens: "\n", plain text tokens, and, for each *)
(* JSON record of the table JsonLines, the two halves of its text.         *)
(***************************************************************************)
EXTENDS Naturals, Integers, Sequences, FiniteSets, TLC

VARIABLES
    loadedSuite,      \* runner.ts:12  reference to a tree object, NoSuite when undefined
    resultById,       \* runner.ts:14  Map<string, Result>
    reject,           \* runner.ts:16  the run whose promise this.reject settles (0: the no-op)
    resolve,          \* runner.ts:17  the run whose promise this.resolve settles (0: the no-op)
    loadingSuite,     \* runner.ts:18  reference to a tree object, NoSuite when undefined
    pendingMessages,  \* runner.ts:19
    heap,             \* the tree objects, one allocated per run start; a reference is an index
    promises,         \* per run: the promise runAllTests / runSomeTests returned
    tasks,            \* per run: the build task of runElmTests
    procs,            \* per run: the report process of runElmTestWithReport
    delivered,        \* number of stdout chunks delivered so far (all processes)
    stream,           \* history: the text written to stdout so far, as far as the
                      \*          specification records it (SpecChunk does)
    overlap,          \* history: some run was started while an earlier one was unsettled
    received,         \* history: diagnostic lines pushed to parse() since the last
                      \*          testCompleted was accepted or a run was started
    attachLog,        \* history: what each accept() of the last stdout handler attached
    accepted,         \* history: per tree object, the labels of the testCompleted
                      \*          Results accepted into it, in order
    emitted           \* what the last fireEvents or fireLineEvents call fired

vars == <<loadedSuite, resultById, reject, resolve, loadingSuite, pendingMessages,
          heap, promises, tasks, procs, delivered, stream, overlap, received,
          attachLog, accepted, emitted>>

(***************************************************************************)
(* Bounds of the model.                                                    *)
(***************************************************************************)
MaxRuns == 2
MaxChunks == 2
MaxInserts == 3
MaxPieces == 3

(***************************************************************************)
(* Strings.                                                                *)
(***************************************************************************)
NoSuite == 0

ROOT == <<"r", "o", "o", "t">>

FsPath == <<"/", "w">>

NL == "\n"

Contains(s, c) == \E i \in DOMAIN s : s[i] = c

\* String.prototype.replace(pattern: string, by): only the first occurrence.
ReplaceFirst(s, c, by) ==
    IF Contains(s, c)
    THEN LET i == CHOOSE k \in DOMAIN s :
                     s[k] = c /\ \A j \in 1..(k - 1) : s[j] # c
         IN  [k \in DOMAIN s |-> IF k = i THEN by ELSE s[k]]
    ELSE s

getFilePath(result) ==
    LET module == result.labels[1]
        file == ReplaceFirst(module, ".", "/")
    IN  FsPath \o <<"/", "t", "e", "s", "t", "s", "/">> \o file
               \o <<".", "e", "l", "m">>

(***************************************************************************)
(* The suite tree.                                                         *)
(***************************************************************************)
EmptyRoot == [type |-> "suite", id |-> ROOT, label |-> ROOT, children |-> <<>>]

\* A find that never finds: a Suite is created for every label of every Result.
FindChildNever(suite, label) == 0

\* Array.prototype.find: the index of the first child with that label, 0 if none.
FindChild(suite, label) ==
    IF \E i \in DOMAIN suite.children : suite.children[i].label = label
    THEN CHOOSE i \in DOMAIN suite.children :
            /\ suite.children[i].label = label
            /\ \A j \in 1..(i - 1) : suite.children[j].label # label
    ELSE 0

TestInfoOf(suite, label, result) ==
    LET testInfo == [type |-> "test",
                     id |-> suite.id \o <<"/">> \o label,
                     label |-> label,
                     description |-> label,
                     file |-> getFilePath(result)]
    IN  IF result.status = "todo"
        THEN ("skipped" :> TRUE) @@ testInfo
        ELSE testInfo

\* A Suite whose id is its label alone, without the id of its parent.
NewSuiteOfBare(suite, label, result) ==
    [type |-> "suite",
     id |-> label,
     label |-> label,
     description |-> label,
     children |-> <<>>,
     file |-> getFilePath(result)]

NewSuiteOf(suite, label, result) ==
    [type |-> "suite",
     id |-> suite.id \o <<"/">> \o label,
     label |-> label,
     description |-> label,
     children |-> <<>>,
     file |-> getFilePath(result)]

\* addResult_ mutates the suite it is given and returns the id of the new leaf:
\* here it returns both, [suite |-> the suite afterwards, id |-> the id].
RECURSIVE addResult_(_, _, _)
addResult_(suite, labels, result) ==
    IF Len(labels) = 1
    THEN LET testInfo == TestInfoOf(suite, labels[1], result)
         IN  [suite |-> [suite EXCEPT !.children = Append(@, testInfo)],
              id |-> testInfo.id]
    ELSE LET label == Head(labels)
             rest == Tail(labels)
             found == FindChild(suite, label)
         IN  IF found # 0 /\ suite.children[found].type = "suite"
             THEN LET r == addResult_(suite.children[found], rest, result)
                  IN  [suite |-> [suite EXCEPT !.children[found] = r.suite],
                       id |-> r.id]
             ELSE LET r == addResult_(NewSuiteOf(suite, label, result), rest, result)
                  IN  [suite |-> [suite EXCEPT !.children = Append(@, r.suite)],
                       id |-> r.id]

addResult(suite, result) == addResult_(suite, result.labels, result)

(***************************************************************************)
(* Results and the lines of the report process.                            *)
(***************************************************************************)
Undefined == [undefined |-> TRUE]

TestCompleted(labels, status, failures) ==
    [event |-> "testCompleted", labels |-> labels, status |-> status,
     failures |-> failures]

Lifecycle(event) == [event |-> event]

LM == <<"M">>
La == <<"a">>
Lb == <<"b">>
Lc == <<"c">>
Lab == <<"a", "/", "b">>
LABC == <<"A", ".", "B", ".", "C">>

\* The JSON records the report process may write: the two halves of the text of
\* each, and the value the text decodes to.
JsonLines ==
    << [head |-> "{1", tail |-> "1}", value |-> TestCompleted(<<LM, La>>, "pass", <<>>)],
       [head |-> "{2", tail |-> "2}",
        value |-> TestCompleted(<<LM, La>>, "fail", <<[message |-> <<"boom">>]>>)],
       [head |-> "{3", tail |-> "3}", value |-> TestCompleted(<<LM, Lb>>, "todo", <<>>)],
       [head |-> "{4", tail |-> "4}", value |-> Lifecycle("runStart")],
       [head |-> "{5", tail |-> "5}", value |-> Lifecycle("runComplete")],
       [head |-> "{6", tail |-> "6}", value |-> TestCompleted(<<LM, La, Lb>>, "pass", <<>>)],
       [head |-> "{7", tail |-> "7}", value |-> TestCompleted(<<LM, La, Lc>>, "pass", <<>>)],
       [head |-> "{8", tail |-> "8}", value |-> TestCompleted(<<LM, Lab>>, "pass", <<>>)],
       [head |-> "{9", tail |-> "9}", value |-> TestCompleted(<<LM>>, "pass", <<>>)],
       [head |-> "{10", tail |-> "10}", value |-> TestCompleted(<<LM, Lc>>, "error", <<>>)],
       [head |-> "{11", tail |-> "11}", value |-> TestCompleted(<<LABC, La>>, "pass", <<>>)] >>

Json(i) == <<JsonLines[i].head, JsonLines[i].tail>>

IsJsonRecord(line) == \E i \in DOMAIN JsonLines : line = Json(i)

\* result.ts is not among the sources: a line that decodes to a record with a
\* recognised event yields the record, any other line is returned verbatim.
parseTestResult(line) ==
    IF IsJsonRecord(line)
    THEN [string |-> FALSE,
          value |-> JsonLines[CHOOSE i \in DOMAIN JsonLines : line = Json(i)].value]
    ELSE [string |-> TRUE, value |-> line]

\* String.prototype.split('\n')
RECURSIVE Split(_)
Split(data) ==
    IF ~Contains(data, NL)
    THEN <<data>>
    ELSE LET i == CHOOSE k \in DOMAIN data :
                     data[k] = NL /\ \A j \in 1..(k - 1) : data[j] # NL
         IN  <<SubSeq(data, 1, i - 1)>> \o Split(SubSeq(data, i + 1, Len(data)))

(***************************************************************************)
(* parse / pushMessage / popMessages / accept.  They act on the fields a   *)
(* stdout handler touches, st = [pendingMessages, suite, resultById] with  *)
(* suite the tree object this.loadingSuite refers to, and on the history   *)
(* fields received, attachLog and accepted (of that tree object).          *)
(***************************************************************************)
\* A set that stores nothing.
PutNothing(map, key, value) == map

Put(map, key, value) ==
    [k \in DOMAIN map \cup {key} |-> IF k = key THEN value ELSE map[k]]

pushMessage(st, message) ==
    IF message = <<>>
    THEN st
    ELSE [st EXCEPT !.pendingMessages = Append(@, message)]

\* A popMessages that returns the buffer without emptying it.
popMessagesKeep(st) == [result |-> st.pendingMessages, st |-> st]

popMessages(st) ==
    [result |-> st.pendingMessages, st |-> [st EXCEPT !.pendingMessages = <<>>]]

\* An accept that drains the pending messages on every record, whatever its event.
acceptDraining(st, result) ==
    IF result = Undefined
    THEN st
    ELSE IF result.event = "testCompleted"
    THEN LET popped == popMessages(st)
             withMessages == ("messages" :> popped.result) @@ result
             added == addResult(popped.st.suite, withMessages)
         IN  [popped.st EXCEPT
                 !.suite = added.suite,
                 !.resultById = Put(@, added.id, withMessages),
                 !.received = <<>>,
                 !.accepted = Append(@, result.labels),
                 !.attachLog = Append(@, [id |-> added.id,
                                          messages |-> withMessages.messages,
                                          received |-> st.received,
                                          pendingAfter |-> popped.st.pendingMessages])]
    ELSE popMessages(st).st

accept(st, result) ==
    IF result = Undefined
    THEN st
    ELSE IF result.event = "testCompleted"
    THEN LET popped == popMessages(st)
             withMessages == ("messages" :> popped.result) @@ result
             added == addResult(popped.st.suite, withMessages)
         IN  [popped.st EXCEPT
                 !.suite = added.suite,
                 !.resultById = Put(@, added.id, withMessages),
                 !.received = <<>>,
                 !.accepted = Append(@, result.labels),
                 !.attachLog = Append(@, [id |-> added.id,
                                          messages |-> withMessages.messages,
                                          received |-> st.received,
                                          pendingAfter |-> popped.st.pendingMessages])]
    ELSE st

RECURSIVE parse(_, _)
parse(st, lines) ==
    IF lines = <<>>
    THEN st
    ELSE LET result == parseTestResult(Head(lines))
             next == IF result.string
                     THEN pushMessage([st EXCEPT !.received = Append(@, result.value)],
                                      result.value)
                     ELSE accept(st, result.value)
         IN  parse(next, Tail(lines))

\* lines.forEach(line => this.parse([line]))
RECURSIVE ForEachLine(_, _)
ForEachLine(st, lines) ==
    IF lines = <<>>
    THEN st
    ELSE ForEachLine(parse(st, <<Head(lines)>>), Tail(lines))

(***************************************************************************)
(* Event replay.                                                           *)
(***************************************************************************)
Get(map, key) == IF key \in DOMAIN map THEN map[key] ELSE Undefined

RECURSIVE Join(_)
Join(lines) ==
    IF lines = <<>> THEN <<>>
    ELSE IF Len(lines) = 1 THEN lines[1]
    ELSE lines[1] \o <<NL>> \o Join(Tail(lines))

\* result.ts is not among the sources: the messages, then the message of each
\* failure, one per line; total, with the empty string when there is nothing.
buildMessage(result) ==
    IF result = Undefined
    THEN <<>>
    ELSE Join(result.messages
              \o [i \in DOMAIN result.failures |-> result.failures[i].message])

\* result?.status
StatusOf(result) == IF result = Undefined THEN "undefined" ELSE result.status

\* The events fireEvents fires on the emitter, in order.
RECURSIVE fireEvents(_, _)
RECURSIVE fireChildren(_, _)
fireChildren(children, index) ==
    IF children = <<>>
    THEN <<>>
    ELSE fireEvents(Head(children), index) \o fireChildren(Tail(children), index)

\* A replay that completes a suite before it visits the children.
fireEventsCompletedEarly(node, index) ==
    IF node.type = "suite"
    THEN <<[type |-> "suite", suite |-> node.id, state |-> "running"],
           [type |-> "suite", suite |-> node.id, state |-> "completed"]>>
         \o fireChildren(node.children, index)
    ELSE LET result == Get(index, node.id)
             state == CASE StatusOf(result) = "pass" -> "passed"
                        [] StatusOf(result) = "todo" -> "skipped"
                        [] OTHER -> "failed"
         IN  << [type |-> "test", test |-> node.id, state |-> "running"],
                [type |-> "test", test |-> node.id, state |-> state,
                 message |-> buildMessage(result)] >>

\* A replay that reports a todo test as failed and skips a test without Result.
fireEventsTodoFailed(node, index) ==
    IF node.type = "suite"
    THEN <<[type |-> "suite", suite |-> node.id, state |-> "running"]>>
         \o fireChildren(node.children, index)
         \o <<[type |-> "suite", suite |-> node.id, state |-> "completed"]>>
    ELSE LET result == Get(index, node.id)
             state == CASE StatusOf(result) = "pass" -> "passed"
                        [] StatusOf(result) = "undefined" -> "skipped"
                        [] OTHER -> "failed"
         IN  << [type |-> "test", test |-> node.id, state |-> "running"],
                [type |-> "test", test |-> node.id, state |-> state,
                 message |-> buildMessage(result)] >>

fireEvents(node, index) ==
    IF node.type = "suite"
    THEN <<[type |-> "suite", suite |-> node.id, state |-> "running"]>>
         \o fireChildren(node.children, index)
         \o <<[type |-> "suite", suite |-> node.id, state |-> "completed"]>>
    ELSE LET result == Get(index, node.id)
             message == buildMessage(result)
             state == CASE StatusOf(result) = "pass" -> "passed"
                        [] StatusOf(result) = "todo" -> "skipped"
                        [] OTHER -> "failed"
         IN  << [type |-> "test", test |-> node.id, state |-> "running"],
                [type |-> "test", test |-> node.id, state |-> state,
                 message |-> message] >>

(***************************************************************************)
(* Promises.                                                               *)
(***************************************************************************)
Pending == [state |-> "pending"]

ElmTestFailed ==
    << "elm-test failed.", NL, "Check for Elm errors,", NL,
       "find details in the \"Task - Elm Test Run\" terminal." >>

\* A callback that settles the oldest unsettled promise, whatever run it is of.
SettleOldest(ps, r, outcome) ==
    IF \E q \in DOMAIN ps : ps[q].state = "pending"
    THEN LET q == CHOOSE k \in DOMAIN ps :
                     /\ ps[k].state = "pending"
                     /\ \A j \in 1..(k - 1) : ps[j].state # "pending"
         IN  [ps EXCEPT ![q] = outcome]
    ELSE ps

\* Calling the resolve or reject callback of run r: a settled promise stays as it is.
Settle(ps, r, outcome) ==
    IF r = 0 \/ ps[r].state # "pending"
    THEN ps
    ELSE [ps EXCEPT ![r] = outcome]

NRuns == Len(promises)

Runs == 1..NRuns

NotFired == [fired |-> FALSE]

(***************************************************************************)
(* The operations.                                                         *)
(***************************************************************************)
Init ==
    /\ loadedSuite = NoSuite
    /\ resultById = <<>>
    /\ reject = 0
    /\ resolve = 0
    /\ loadingSuite = NoSuite
    /\ pendingMessages = <<>>
    /\ heap = <<>>
    /\ promises = <<>>
    /\ tasks = <<>>
    /\ procs = <<>>
    /\ delivered = 0
    /\ stream = <<>>
    /\ overlap = FALSE
    /\ received = <<>>
    /\ attachLog = <<>>
    /\ accepted = <<>>
    /\ emitted = NotFired

\* runElmTests: the task is handed to vscode.tasks.executeTask and a listener
\* for the end of its process is registered.  exitedWith1 is history: whether
\* the process of the task ended with exit code 1.
runElmTests(files) ==
    /\ tasks' = Append(tasks, [state |-> "executing", files |-> files,
                               exitedWith1 |-> FALSE])
    /\ procs' = Append(procs, "none")

\* A run start that keeps the pending messages of the run before.
StartRunKeepPending ==
    /\ promises' = Append(promises, Pending)
    /\ resolve' = NRuns + 1
    /\ reject' = NRuns + 1
    /\ heap' = Append(heap, EmptyRoot)
    /\ loadingSuite' = NRuns + 1
    /\ pendingMessages' = pendingMessages
    /\ overlap' = (overlap \/ \E r \in Runs : promises[r].state = "pending")
    /\ received' = <<>>
    /\ attachLog' = <<>>
    /\ accepted' = Append(accepted, <<>>)
    /\ emitted' = NotFired
    /\ UNCHANGED <<delivered, stream>>

\* What both run starts do: the promise, its callbacks, a fresh loading tree.
StartRun ==
    /\ promises' = Append(promises, Pending)
    /\ resolve' = NRuns + 1
    /\ reject' = NRuns + 1
    /\ heap' = Append(heap, EmptyRoot)
    /\ loadingSuite' = NRuns + 1
    /\ pendingMessages' = <<>>
    /\ overlap' = (overlap \/ \E r \in Runs : promises[r].state = "pending")
    /\ received' = <<>>
    /\ attachLog' = <<>>
    /\ accepted' = Append(accepted, <<>>)
    /\ emitted' = NotFired
    /\ UNCHANGED <<delivered, stream>>

\* A runAllTests that also empties the result index.
runAllTestsClearIndex ==
    /\ NRuns < MaxRuns
    /\ StartRun
    /\ loadedSuite' = NoSuite
    /\ runElmTests("all")
    /\ resultById' = <<>>

runAllTests ==
    /\ NRuns < MaxRuns
    /\ StartRun
    /\ loadedSuite' = NoSuite
    /\ runElmTests("all")
    /\ UNCHANGED resultById

\* A runSomeTests that resets what runAllTests resets, and the index with it.
runSomeTestsReset ==
    /\ NRuns < MaxRuns
    /\ StartRun
    /\ loadedSuite' = NoSuite
    /\ runElmTests("some")
    /\ resultById' = <<>>

\* A runSomeTests that unloads the loaded tree, as runAllTests does.
runSomeTestsUnload ==
    /\ NRuns < MaxRuns
    /\ StartRun
    /\ loadedSuite' = NoSuite
    /\ runElmTests("some")
    /\ UNCHANGED resultById

runSomeTests ==
    /\ NRuns < MaxRuns
    /\ StartRun
    /\ runElmTests("some")
    /\ UNCHANGED <<loadedSuite, resultById>>

\* executeTask's rejection handler: the failure is logged, nothing else happens.
ExecuteTaskRejected(r) ==
    /\ tasks[r].state = "executing"
    /\ tasks' = [tasks EXCEPT ![r].state = "rejected"]
    /\ attachLog' = <<>>
    /\ UNCHANGED <<loadedSuite, resultById, reject, resolve, loadingSuite,
                   pendingMessages, heap, promises, procs, delivered, overlap,
                   received, accepted,
                   stream>>
    /\ emitted' = NotFired

\* runElmTestWithReport: the report process is spawned.
runElmTestWithReport(r) ==
    procs' = [procs EXCEPT ![r] = "running"]

\* A listener that takes every exit code but 0 for a build failure.
OnDidEndTaskProcessNonZero(r, exitCode) ==
    /\ tasks[r].state = "executing"
    /\ tasks' = [tasks EXCEPT ![r].state = "ended", ![r].exitedWith1 = (exitCode = 1)]
    /\ IF exitCode = 0
       THEN /\ runElmTestWithReport(r)
            /\ UNCHANGED promises
       ELSE /\ promises' = Settle(promises, reject,
                                  [state |-> "rejected", reason |-> ElmTestFailed])
            /\ UNCHANGED procs
    /\ attachLog' = <<>>
    /\ emitted' = NotFired
    /\ UNCHANGED <<loadedSuite, resultById, reject, resolve, loadingSuite,
                   pendingMessages, heap, delivered, overlap, received,
                   accepted,
                   stream>>

\* The onDidEndTaskProcess listener of run r, for the end of r's own task.
OnDidEndTaskProcess(r, exitCode) ==
    /\ tasks[r].state = "executing"
    /\ tasks' = [tasks EXCEPT ![r].state = "ended", ![r].exitedWith1 = (exitCode = 1)]
    /\ IF exitCode # 1
       THEN /\ runElmTestWithReport(r)
            /\ UNCHANGED promises
       ELSE /\ promises' = Settle(promises, reject,
                                  [state |-> "rejected", reason |-> ElmTestFailed])
            /\ UNCHANGED procs
    /\ attachLog' = <<>>
    /\ UNCHANGED <<loadedSuite, resultById, reject, resolve, loadingSuite,
                   pendingMessages, heap, delivered, overlap, received,
                   accepted,
                   stream>>
    /\ emitted' = NotFired

\* elm.stdout.on('data'): the chunk is split into lines, each line is parsed.
OnStdoutData(r, data) ==
    /\ procs[r] = "running"
    /\ LET st == [pendingMessages |-> pendingMessages,
                  suite |-> heap[loadingSuite],
                  resultById |-> resultById,
                  received |-> received,
                  attachLog |-> <<>>,
                  accepted |-> accepted[loadingSuite]]
           after == ForEachLine(st, Split(data))
       IN  /\ pendingMessages' = after.pendingMessages
           /\ heap' = [heap EXCEPT ![loadingSuite] = after.suite]
           /\ resultById' = after.resultById
           /\ received' = after.received
           /\ attachLog' = after.attachLog
           /\ accepted' = [accepted EXCEPT ![loadingSuite] = after.accepted]
    /\ delivered' = delivered + 1
    /\ UNCHANGED <<loadedSuite, reject, resolve, loadingSuite, promises, tasks,
                   procs, overlap>>
    /\ emitted' = NotFired

\* elm.stderr.on('data'): the lines are logged.
OnStderrData(r) ==
    /\ procs[r] = "running"
    /\ attachLog' = <<>>
    /\ emitted' = NotFired
    /\ UNCHANGED <<loadedSuite, resultById, reject, resolve, loadingSuite,
                   pendingMessages, heap, promises, tasks, procs, delivered,
                   overlap, received, accepted,
                   stream>>

\* A close handler that promotes the loading tree whether or not a tree is loaded.
OnCloseAlwaysPromote(r) ==
    /\ procs[r] = "running"
    /\ procs' = [procs EXCEPT ![r] = "closed"]
    /\ loadedSuite' = loadingSuite
    /\ promises' = Settle(promises, resolve,
                          [state |-> "resolved", suite |-> loadedSuite'])
    /\ attachLog' = <<>>
    /\ emitted' = NotFired
    /\ UNCHANGED <<resultById, reject, resolve, loadingSuite, pendingMessages,
                   heap, tasks, delivered, overlap, received, accepted,
                   stream>>

\* A close handler that never promotes the loading tree.
OnCloseNeverPromote(r) ==
    /\ procs[r] = "running"
    /\ procs' = [procs EXCEPT ![r] = "closed"]
    /\ loadedSuite' = loadedSuite
    /\ promises' = Settle(promises, resolve,
                          [state |-> "resolved", suite |-> loadedSuite'])
    /\ attachLog' = <<>>
    /\ emitted' = NotFired
    /\ UNCHANGED <<resultById, reject, resolve, loadingSuite, pendingMessages,
                   heap, tasks, delivered, overlap, received, accepted,
                   stream>>

\* elm.on('close')
OnClose(r) ==
    /\ procs[r] = "running"
    /\ procs' = [procs EXCEPT ![r] = "closed"]
    /\ loadedSuite' = IF loadedSuite = NoSuite THEN loadingSuite ELSE loadedSuite
    /\ promises' = Settle(promises, resolve,
                          [state |-> "resolved", suite |-> loadedSuite'])
    /\ attachLog' = <<>>
    /\ UNCHANGED <<resultById, reject, resolve, loadingSuite, pendingMessages,
                   heap, tasks, delivered, overlap, received, accepted,
                   stream>>
    /\ emitted' = NotFired

\* event.exitCode: number | undefined (-1 stands for undefined).
ExitCodes == {-1, 0, 1, 2}

\* The chunks the report process of the model writes.
Chunks ==
    { Json(1) \o <<NL>>,
      Json(2) \o <<NL>>,
      <<"x", NL, NL>>,
      Json(4) \o <<NL>> \o Json(5),
      <<"y", NL>> \o Json(3) \o <<NL>> }

Next ==
    \/ runAllTests
    \/ runSomeTests
    \/ \E r \in Runs : ExecuteTaskRejected(r)
    \/ \E r \in Runs, exitCode \in ExitCodes : OnDidEndTaskProcess(r, exitCode)
    \/ \E r \in Runs, data \in Chunks :
          delivered < MaxChunks /\ OnStdoutData(r, data) /\ UNCHANGED stream
    \/ \E r \in Runs : OnStderrData(r)
    \/ \E r \in Runs : OnClose(r)

Spec == Init /\ [][Next]_vars

\* fireEvents(node, emitter), called with a suite tree of this runner or with a
\* node of the caller's own.
FireEvents(node) ==
    /\ emitted' = [fired |-> TRUE, node |-> node,
                   events |-> fireEvents(node, resultById)]
    /\ attachLog' = <<>>
    /\ UNCHANGED <<loadedSuite, resultById, reject, resolve, loadingSuite,
                   pendingMessages, heap, promises, tasks, procs, delivered,
                   overlap, received, accepted,
                   stream>>

\* Nodes a caller may hand to fireEvents that no run of this runner produced.
ForeignTest(id, label) ==
    [type |-> "test", id |-> id, label |-> label, description |-> label]

ForeignNodes ==
    { ForeignTest(ROOT \o <<"/">> \o LM \o <<"/">> \o La, La),
      [type |-> "suite", id |-> ROOT, label |-> ROOT,
       children |-> << ForeignTest(ROOT \o <<"/">> \o LM \o <<"/">> \o La, La),
                       ForeignTest(ROOT \o <<"/">> \o LM \o <<"/">> \o Lb, Lb),
                       ForeignTest(ROOT \o <<"/", "z">>, <<"z">>) >>] }

\* One record per chunk: the insertions of a single run, in any order.
InsertChunks == { Json(i) \o <<NL>> : i \in {1, 2, 3, 6, 7, 8, 9, 10, 11} }

TestsDir == FsPath \o <<"/", "t", "e", "s", "t", "s", "/">>

\* The Elm files of the workspace and their text.  The tests "a" and "b" of
\* module M and the test "a" of module A.B.C are in the text, "c" is not.
Files ==
    (TestsDir \o <<"M", ".", "e", "l", "m">>
        :> <<"m", NL, "\"", "a", "\"", NL, "\"", "b", "\"">>)
    @@ (TestsDir \o <<"A", "/", "B", "/", "C", ".", "e", "l", "m">>
        :> <<"m", NL, NL, "\"", "a", "\"">>)

\* util.ts is not among the sources.  The Test nodes of a tree, depth first.
RECURSIVE getTestInfos(_)
RECURSIVE getTestInfosOfAll(_)
getTestInfosOfAll(children) ==
    IF children = <<>>
    THEN <<>>
    ELSE getTestInfos(Head(children)) \o getTestInfosOfAll(Tail(children))

getTestInfos(node) ==
    IF node.type = "suite" THEN getTestInfosOfAll(node.children) ELSE <<node>>

\* The Test nodes bucketed by their file, in traversal order; a node without
\* file is skipped.
getTestInfosByFile(suite) ==
    LET tests == SelectSeq(getTestInfos(suite), LAMBDA n : "file" \in DOMAIN n)
    IN  [file \in {tests[i].file : i \in DOMAIN tests} |->
            SelectSeq(tests, LAMBDA n : n.file = file)]

NotFound == -1

\* String.prototype.indexOf(pattern, from): offsets count from 0.
IndexOf(text, pattern, from) ==
    LET hits == {i \in from..(Len(text) - Len(pattern)) :
                    SubSeq(text, i + 1, i + Len(pattern)) = pattern}
    IN  IF hits = {} THEN NotFound
        ELSE CHOOSE i \in hits : \A j \in hits : i <= j

\* The offset of the innermost label, each label looked for as a quoted literal
\* from the match of the label before it on; NotFound if one of them is absent.
RECURSIVE findOffsetFrom(_, _, _)
findOffsetFrom(names, text, from) ==
    LET offset == IndexOf(text, <<"\"">> \o Head(names) \o <<"\"">>, from)
    IN  IF offset = NotFound THEN NotFound
        ELSE IF Len(names) = 1 THEN offset
        ELSE findOffsetFrom(Tail(names), text, offset)

findOffsetForTest(names, text) ==
    IF names = <<>> THEN NotFound ELSE findOffsetFrom(names, text, 0)

\* TextDocument.positionAt(offset).line
LineAt(text, offset) == Cardinality({i \in 1..offset : text[i] = NL})

\* What the handlers of one opened document compute: the events fired for the
\* nodes of the file, in order.
LineEventsOf(text, nodes, index) ==
    LET located == [i \in DOMAIN nodes |->
                       [offset |-> findOffsetForTest(Tail(index[nodes[i].id].labels),
                                                     text),
                        id |-> nodes[i].id]]
        kept == SelectSeq(located,
                          LAMBDA p : p.offset # NotFound /\ p.offset # 0)
    IN  [i \in DOMAIN kept |->
            [type |-> "test", test |-> kept[i].id,
             line |-> LineAt(text, kept[i].offset)]]

\* counts.reduce((a, b) => a + b), over the counts in any order.
RECURSIVE SumOver(_, _)
SumOver(counts, files) ==
    IF files = {} THEN 0
    ELSE LET f == CHOOSE x \in files : TRUE
         IN  counts[f] + SumOver(counts, files \ {f})

\* fireLineEvents(suite, emitter): the events fired per opened file, and how the
\* promise it returns is settled.  openTextDocument rejects for a file that is
\* not there, and Promise.all with it; reduce without an initial value throws
\* on the empty array.
fireLineEvents(suite, index) ==
    LET testInfosByFile == getTestInfosByFile(suite)
        files == DOMAIN testInfosByFile
        opened == files \cap DOMAIN Files
        events == [file \in opened |->
                      LineEventsOf(Files[file], testInfosByFile[file], index)]
        counts == [file \in opened |-> Len(events[file])]
    IN  [events |-> events,
         promise |-> IF opened # files
                     THEN [state |-> "rejected", reason |-> "openTextDocument"]
                     ELSE IF files = {}
                     THEN [state |-> "rejected", reason |-> "TypeError"]
                     ELSE [state |-> "resolved", value |-> SumOver(counts, files)]]

\* fireLineEvents called with a suite tree of this runner.
FireLineEvents(suite) ==
    /\ emitted' = [fired |-> FALSE, suite |-> suite,
                   lines |-> fireLineEvents(suite, resultById)]
    /\ attachLog' = <<>>
    /\ UNCHANGED <<loadedSuite, resultById, reject, resolve, loadingSuite,
                   pendingMessages, heap, promises, tasks, procs, delivered,
                   stream, overlap, received, accepted>>

NextTree ==
    \/ NRuns = 0 /\ runAllTests
    \/ \E r \in Runs : OnDidEndTaskProcess(r, 0)
    \/ \E r \in Runs, data \in InsertChunks :
          delivered < MaxInserts /\ OnStdoutData(r, data) /\ UNCHANGED stream
    \/ \E r \in Runs : OnClose(r)
    \/ \E node \in {heap[r] : r \in Runs} \cup ForeignNodes : FireEvents(node)
    \/ \E r \in Runs : FireLineEvents(heap[r])

SpecTree == Init /\ [][NextTree]_vars

\* A chunk of lifecycle records only.
LifecycleChunk == Json(4) \o <<NL>> \o Json(5)

\* The pieces the report process writes when the text of a record or of a
\* diagnostic line does not arrive in one chunk, and some whole lines.
Pieces ==
    { <<JsonLines[1].head>>,
      <<JsonLines[1].tail, NL>>,
      Json(1) \o <<NL>>,
      <<"x">>,
      <<"y", NL>>,
      Json(3) \o <<NL>>,
      Json(11) \o <<NL>>,
      LifecycleChunk }

\* One run whose report process writes its text in pieces; stream records the
\* text written.
NextChunk ==
    \/ NRuns = 0 /\ runAllTests
    \/ \E r \in Runs : OnDidEndTaskProcess(r, 0)
    \/ \E r \in Runs, data \in Pieces :
          /\ delivered < MaxPieces
          /\ OnStdoutData(r, data)
          /\ stream' = stream \o data
    \/ \E r \in Runs : OnClose(r)

SpecChunk == Init /\ [][NextChunk]_vars

(***************************************************************************)
(* Notions the properties are stated with.                                 *)
(***************************************************************************)
Range(f) == {f[i] : i \in DOMAIN f}

\* Every node of a tree, the node itself first, then its descendants in order.
RECURSIVE Nodes(_)
RECURSIVE NodesOfAll(_)
NodesOfAll(children) ==
    IF children = <<>>
    THEN <<>>
    ELSE Nodes(Head(children)) \o NodesOfAll(Tail(children))

Nodes(node) ==
    <<node>> \o (IF node.type = "suite" THEN NodesOfAll(node.children) ELSE <<>>)

IsPrefix(p, q) == Len(p) <= Len(q) /\ SubSeq(q, 1, Len(p)) = p

PairwiseDistinct(seq) == \A i, j \in DOMAIN seq : i # j => seq[i] # seq[j]

NoSlashInLabels(paths) ==
    \A i \in DOMAIN paths : \A k \in DOMAIN paths[i] : ~Contains(paths[i][k], "/")

NoProperPrefix(paths) ==
    \A i, j \in DOMAIN paths : i # j => ~IsPrefix(paths[i], paths[j])

NoDuplicateSuites(tree) ==
    \A n \in Range(Nodes(tree)) :
        n.type = "suite" =>
            \A i, j \in DOMAIN n.children :
                (/\ i # j
                 /\ n.children[i].type = "suite"
                 /\ n.children[j].type = "suite")
                => n.children[i].label # n.children[j].label

UniqueIds(tree) ==
    LET nodes == Nodes(tree)
    IN  \A i, j \in DOMAIN nodes : i # j => nodes[i].id # nodes[j].id

(***************************************************************************)
(* The properties.                                                         *)
(***************************************************************************)

\* C1: after any sequence of testCompleted Results inserted into a loading tree,
\* the tree never contains two distinct Suite nodes with the same parent and the
\* same label (Results sharing a label prefix share one Suite for that prefix).
C1_OneSuitePerPrefix == \A r \in Runs : NoDuplicateSuites(heap[r])

\* C2 as stated: if the label sequences accepted into a tree are pairwise distinct
\* and no label contains '/', no two nodes of the tree carry the same id.
C2_UniqueIdsAsStated ==
    \A r \in Runs :
        (PairwiseDistinct(accepted[r]) /\ NoSlashInLabels(accepted[r]))
        => UniqueIds(heap[r])

\* C2 as amended: if the label sequences accepted into a tree are pairwise
\* distinct, no label contains '/', and no accepted label sequence is a proper
\* prefix of another, then no two nodes of the tree carry the same id.
C2_UniqueIds ==
    \A r \in Runs :
        (/\ PairwiseDistinct(accepted[r])
         /\ NoSlashInLabels(accepted[r])
         /\ NoProperPrefix(accepted[r]))
        => UniqueIds(heap[r])

\* A tree built from three distinct, prefix-free label sequences without '/',
\* two of them of length 3 sharing the Suites M and a.
C2_Witness ==
    \E r \in Runs :
        /\ Len(accepted[r]) = 3
        /\ PairwiseDistinct(accepted[r])
        /\ NoSlashInLabels(accepted[r])
        /\ NoProperPrefix(accepted[r])
        /\ <<LM, La, Lb>> \in Range(accepted[r])
        /\ <<LM, La, Lc>> \in Range(accepted[r])
        /\ Len(Nodes(heap[r])) = 6

\* C3 as stated: every diagnostic (non-Result) line received since the previous
\* testCompleted is attached, in arrival order, to the next Result and to no
\* other, and the pending-message buffer is empty right after each accept.
C3_AttachAsStated ==
    \A i \in DOMAIN attachLog :
        /\ attachLog[i].messages = attachLog[i].received
        /\ attachLog[i].pendingAfter = <<>>

NonEmptyLine(line) == line # <<>>

\* C3 as amended: the non-empty diagnostic lines received since the previous
\* testCompleted of the run (or since the run started) are attached, in arrival
\* order, to the next Result and to no other; empty lines are dropped; and the
\* pending-message buffer is empty right after each testCompleted is accepted.
C3_Attach ==
    \A i \in DOMAIN attachLog :
        /\ attachLog[i].messages = SelectSeq(attachLog[i].received, NonEmptyLine)
        /\ attachLog[i].pendingAfter = <<>>

\* A stdout handler accepted a Result that followed a diagnostic line and an
\* empty line, and a second Result was accepted before it in the same run.
C3_Witness ==
    /\ \E i \in DOMAIN attachLog :
          /\ <<>> \in Range(attachLog[i].received)
          /\ attachLog[i].messages # <<>>
    /\ loadingSuite # NoSuite
    /\ Len(accepted[loadingSuite]) >= 2

RejectedAsBuildFailure(r) ==
    /\ promises[r].state = "rejected"
    /\ Contains(promises[r].reason, "elm-test failed.")

\* C4: a build task that ended with exit code 1 never gets a report process and
\* nothing is parsed for its run (its tree stays the empty root), and its run is
\* rejected with a message containing 'elm-test failed.'; a build task that ended
\* with any other exit code got its report process started and was not rejected.
\* What is said of the run's own promise and tree is said of runs that do not
\* overlap (an overlapping run start redirects the callbacks and the tree).
C4_BuildFailure ==
    \A r \in Runs :
        tasks[r].state = "ended" =>
            IF tasks[r].exitedWith1
            THEN /\ procs[r] = "none"
                 /\ ~overlap => (RejectedAsBuildFailure(r) /\ heap[r] = EmptyRoot)
            ELSE /\ procs[r] # "none"
                 /\ ~overlap => promises[r].state # "rejected"

\* Of two runs that did not overlap, one ended its build with exit code 1 and was
\* rejected, the other ended it with another code, its report process closed and
\* the run was resolved.
C4_Witness ==
    /\ ~overlap
    /\ \E r \in Runs :
          tasks[r].state = "ended" /\ tasks[r].exitedWith1
          /\ RejectedAsBuildFailure(r)
    /\ \E r \in Runs :
          tasks[r].state = "ended" /\ ~tasks[r].exitedWith1
          /\ promises[r].state = "resolved"

IsRunStart == Len(promises') = Len(promises) + 1

IsRunAllStart == IsRunStart /\ tasks'[Len(tasks')].files = "all"

IsRunSomeStart == IsRunStart /\ tasks'[Len(tasks')].files = "some"

IsClose(r) == procs[r] = "running" /\ procs'[r] = "closed"

\* C5 as stated: the result index is emptied when a full run starts, and only
\* then.
C5_ClearedAsStated ==
    [][/\ IsRunAllStart => resultById' = <<>>
       /\ (resultById # <<>> /\ resultById' = <<>>) => IsRunAllStart]_vars

\* C5 as amended: the result index is never emptied; no step removes an entry,
\* and starting a run, full or partial, leaves the index as it was, so that after
\* runAll starts it still holds the Results of the earlier runs.
C5_NeverCleared ==
    [][/\ DOMAIN resultById \subseteq DOMAIN resultById'
       /\ IsRunStart => resultById' = resultById]_vars

\* A full run has just started (nothing accepted into its tree yet) and the index
\* holds Results, all of them from earlier runs.
C5_Witness ==
    /\ NRuns >= 2
    /\ tasks[NRuns].files = "all"
    /\ accepted[NRuns] = <<>>
    /\ loadingSuite = NRuns
    /\ resultById # <<>>

\* C6: starting a partial run leaves the result index and the loaded tree as they
\* were, and an entry of the index changes in a later step only if that step
\* accepts a testCompleted whose id is the entry's.
C6_RunSomeFrame ==
    [][/\ IsRunSomeStart =>
             /\ resultById' = resultById
             /\ loadedSuite' = loadedSuite
             /\ \A t \in DOMAIN heap : heap'[t] = heap[t]
       /\ \A id \in DOMAIN resultById :
             /\ id \in DOMAIN resultById'
             /\ resultById'[id] # resultById[id] =>
                   \E i \in DOMAIN attachLog' : attachLog'[i].id = id]_vars

\* A partial run started after a full run had loaded a tree and Results, and has
\* since overwritten the Result of a test the full run had reported as passed.
C6_Witness ==
    /\ NRuns = 2
    /\ ~overlap
    /\ tasks[2].files = "some"
    /\ loadedSuite = 1
    /\ accepted[1] = <<<<LM, La>>>>
    /\ accepted[2] = <<<<LM, La>>>>
    /\ resultById[ROOT \o <<"/">> \o LM \o <<"/">> \o La].status = "fail"

\* C7: at process close the loading tree becomes the loaded tree only if there
\* is no loaded tree; otherwise the loaded tree stays the same object with the
\* same content, and the pending promise is resolved with the loaded tree.  So a
\* partial run (not overlapping another) that closes while a loaded tree exists
\* resolves with that tree and not with the tree built during the partial run.
C7_PromoteOnlyIfNone ==
    [][\A r \in Runs :
          IsClose(r) =>
             /\ IF loadedSuite = NoSuite
                THEN loadedSuite' = loadingSuite
                ELSE /\ loadedSuite' = loadedSuite
                     /\ heap'[loadedSuite] = heap[loadedSuite]
             /\ promises[resolve].state = "pending" =>
                   promises'[resolve] = [state |-> "resolved", suite |-> loadedSuite']
             /\ (tasks[r].files = "some" /\ loadedSuite # NoSuite /\ ~overlap) =>
                   /\ promises'[r].state = "resolved"
                   /\ promises'[r].suite = loadedSuite
                   /\ promises'[r].suite # loadingSuite]_vars

\* A partial run that built a tree of its own closed and was resolved with the
\* tree an earlier full run had loaded, which is still the loaded tree.
C7_Witness ==
    \E r \in Runs :
        /\ ~overlap
        /\ tasks[r].files = "some"
        /\ procs[r] = "closed"
        /\ heap[r] # EmptyRoot
        /\ promises[r].state = "resolved"
        /\ promises[r].suite # r
        /\ loadedSuite = promises[r].suite
        /\ heap[loadedSuite] # EmptyRoot

\* C8 as stated: in no state do the loading tree and the loaded tree refer to the
\* same tree object.
C8_DistinctAsStated == ~(loadedSuite # NoSuite /\ loadedSuite = loadingSuite)

\* C8 as amended: the loading tree and the loaded tree are distinct objects from
\* the start of a run until a report process closes; a close that finds no
\* loaded tree makes the loaded tree the very object the loading tree is, and the
\* two stay the same object until the next run starts, which allocates a fresh
\* loading tree.
C8_DistinctUntilPromoted ==
    [][/\ IsRunStart => loadedSuite' # loadingSuite'
       /\ \A r \in Runs :
             (IsClose(r) /\ loadedSuite = NoSuite) => loadedSuite' = loadingSuite'
       /\ (loadedSuite # loadingSuite /\ loadedSuite' = loadingSuite') =>
             \E r \in Runs : IsClose(r) /\ loadedSuite = NoSuite
       /\ (loadedSuite = loadingSuite /\ loadedSuite' # loadingSuite') =>
             IsRunStart]_vars

\* Between the completion of a run and the start of the next one: the run is
\* resolved and the loaded tree is the object the loading tree is.
C8_Witness ==
    /\ NRuns >= 1
    /\ ~overlap
    /\ promises[NRuns].state = "resolved"
    /\ loadedSuite # NoSuite
    /\ loadedSuite = loadingSuite
    /\ heap[loadedSuite] # EmptyRoot

Terminal == {"passed", "skipped", "failed"}

\* The shape of a tree: the ids, the nesting and the order of the children.
RECURSIVE Skeleton(_)
Skeleton(node) ==
    IF node.type = "suite"
    THEN [suite |-> node.id,
          children |-> [i \in DOMAIN node.children |-> Skeleton(node.children[i])]]
    ELSE [test |-> node.id]

Malformed == <<[malformed |-> TRUE]>>

\* Reads an event sequence back into the shapes it describes: a suite-started
\* event opens a suite, the suite-completed event of the innermost open suite
\* closes it, a test-started event must be followed at once by one terminal event
\* of the same test.  stack holds the open suites, outermost first, under a
\* bottom frame that collects the finished top-level shapes.
RECURSIVE Rebuild(_, _)
Rebuild(events, stack) ==
    IF events = <<>>
    THEN IF Len(stack) = 1 THEN stack[1].children ELSE Malformed
    ELSE LET e == Head(events)
             n == Len(stack)
             top == stack[n]
         IN  IF e.type = "suite" /\ e.state = "running"
             THEN Rebuild(Tail(events),
                          Append(stack, [suite |-> e.suite, children |-> <<>>]))
             ELSE IF e.type = "suite" /\ e.state = "completed"
             THEN IF n >= 2 /\ top.suite = e.suite
                  THEN Rebuild(Tail(events),
                               [SubSeq(stack, 1, n - 1) EXCEPT
                                   ![n - 1].children = Append(@, top)])
                  ELSE Malformed
             ELSE IF e.type = "test" /\ e.state = "running"
             THEN IF /\ Len(events) >= 2
                     /\ events[2].type = "test"
                     /\ events[2].test = e.test
                     /\ events[2].state \in Terminal
                  THEN Rebuild(SubSeq(events, 3, Len(events)),
                               [stack EXCEPT ![n].children =
                                                 Append(@, [test |-> e.test])])
                  ELSE Malformed
             ELSE Malformed

Bottom == <<[suite |-> <<>>, children |-> <<>>]>>

\* C9: the events of a replay are well nested and depth first: read back, they
\* give exactly the shape of the replayed node (every suite started before and
\* completed after all events of its descendants, children in list order, every
\* test-started event followed at once by one terminal event of the same test).
C9_WellNested ==
    emitted.fired =>
        Rebuild(emitted.events, Bottom) = <<Skeleton(emitted.node)>>

\* A replay of a tree with nested suites and several tests.
C9_Witness ==
    /\ emitted.fired
    /\ \E n \in Range(Nodes(emitted.node)) :
          /\ n.type = "suite"
          /\ n.id # ROOT
          /\ \E i \in DOMAIN n.children : n.children[i].type = "suite"
          /\ Len(Nodes(n)) >= 4

\* The terminal state the claim gives a test id under the result index.
ExpectedState(id) ==
    IF id \in DOMAIN resultById
    THEN IF resultById[id].status = "pass" THEN "passed"
         ELSE IF resultById[id].status = "todo" THEN "skipped"
         ELSE "failed"
    ELSE "failed"

TerminalEvents(events) ==
    SelectSeq(events, LAMBDA e : e.type = "test" /\ e.state # "running")

TestNodes(node) == SelectSeq(Nodes(node), LAMBDA n : n.type = "test")

\* C10: a replay fires one terminal event per Test node, in order, for the
\* node's id, and its state is passed if the index entry of the id has status
\* pass, skipped if it has status todo, failed in every other case, the case of
\* an id without entry included.
C10_TerminalByStatus ==
    emitted.fired =>
        LET terminals == TerminalEvents(emitted.events)
            tests == TestNodes(emitted.node)
        IN  /\ Len(terminals) = Len(tests)
            /\ \A i \in DOMAIN tests :
                  /\ terminals[i].test = tests[i].id
                  /\ terminals[i].state = ExpectedState(tests[i].id)

\* A replay that met a passed test, a todo test, a test of unrecognised status
\* and a test without an entry in the index.
C10_Witness ==
    /\ emitted.fired
    /\ \E n \in Range(TestNodes(emitted.node)) : n.id \notin DOMAIN resultById
    /\ {"passed", "skipped", "failed"} \subseteq
           {e.state : e \in Range(emitted.events)}
    /\ \E id \in DOMAIN resultById : resultById[id].status = "error"

\* What a parser fed the whole text at once, line by line, makes of it.
ParsedAtOnce(text) ==
    ForEachLine([pendingMessages |-> <<>>,
                 suite |-> EmptyRoot,
                 resultById |-> <<>>,
                 received |-> <<>>,
                 attachLog |-> <<>>,
                 accepted |-> <<>>],
                Split(text))

\* C11: the tree and the index depend on the text the report process wrote and
\* not on how the text was split into chunks: once the text written ends with a
\* line break, the loading tree and the index are what parsing the text line by
\* line gives, so a record split across two chunks is parsed as one Result.
C11_ChunkingIrrelevant ==
    (NRuns = 1 /\ stream # <<>> /\ stream[Len(stream)] = NL) =>
        /\ heap[1] = ParsedAtOnce(stream).suite
        /\ resultById = ParsedAtOnce(stream).resultById

\* Nothing is left to happen for run r: its build task failed to launch or its
\* process ended, and no report process of the run is running.
Quiescent(r) == tasks[r].state # "executing" /\ procs[r] # "running"

\* C12: every started run settles: of runs that do not overlap, a run whose
\* build task failed to launch or ended, and whose report process, if one was
\* started, closed, has its promise resolved or rejected.
C12_EveryRunSettles ==
    \A r \in Runs : (~overlap /\ Quiescent(r)) => promises[r].state # "pending"

\* A string with every occurrence of c replaced.
ReplaceAll(s, c, by) == [k \in DOMAIN s |-> IF s[k] = c THEN by ELSE s[k]]

\* C13: the file of a node is the module label (the first label of the Result)
\* with every dot replaced by the path separator, under <workspace>/tests/ and
\* with '.elm' appended: 'A.B.C' gives tests/A/B/C.elm.
C13_FileOfModule ==
    \A r \in Runs :
        \A n \in Range(TestNodes(heap[r])) :
            n.id \in DOMAIN resultById =>
                n.file = FsPath \o <<"/", "t", "e", "s", "t", "s", "/">>
                         \o ReplaceAll(resultById[n.id].labels[1], ".", "/")
                         \o <<".", "e", "l", "m">>

SuiteNodes(node) == SelectSeq(Nodes(node), LAMBDA n : n.type = "suite")

\* 'root/l1/.../ln'
RECURSIVE IdOf(_)
IdOf(labels) ==
    IF labels = <<>> THEN ROOT
    ELSE IdOf(SubSeq(labels, 1, Len(labels) - 1)) \o <<"/">> \o labels[Len(labels)]

\* Under node there is a path labelled labels: Suites, then a Test for the last.
RECURSIVE PathExists(_, _)
PathExists(node, labels) ==
    /\ node.type = "suite"
    /\ \E i \in DOMAIN node.children :
          LET child == node.children[i]
          IN  /\ child.label = Head(labels)
              /\ IF Len(labels) = 1
                 THEN child.type = "test"
                 ELSE PathExists(child, Tail(labels))

\* The id of every node but the root is the id of its parent, '/', its label.
IdsFromParents(tree) ==
    \A n \in Range(SuiteNodes(tree)) :
        \A i \in DOMAIN n.children :
            n.children[i].id = n.id \o <<"/">> \o n.children[i].label

\* C14: accepting a testCompleted with labels l1..ln (n >= 1) adds exactly one
\* Test node and at most n - 1 Suites to the loading tree; afterwards the path
\* root, l1, ..., ln exists in it, Suites for the first n - 1 labels and a Test
\* for the last; the id accept returns is 'root/l1/.../ln' and the index maps it
\* to this Result; and the id of every node is its parent's id, '/', its label.
C14_AcceptAddsLeaf ==
    [][Len(attachLog') = 1 =>
          LET t == loadingSuite
              labels == accepted'[t][Len(accepted'[t])]
              n == Len(labels)
              id == attachLog'[1].id
          IN  /\ n >= 1
              /\ Len(TestNodes(heap'[t])) = Len(TestNodes(heap[t])) + 1
              /\ Len(SuiteNodes(heap'[t])) >= Len(SuiteNodes(heap[t]))
              /\ Len(SuiteNodes(heap'[t])) <= Len(SuiteNodes(heap[t])) + n - 1
              /\ PathExists(heap'[t], labels)
              /\ id = IdOf(labels)
              /\ id \in DOMAIN resultById'
              /\ resultById'[id].event = "testCompleted"
              /\ resultById'[id].labels = labels
              /\ resultById'[id].messages = attachLog'[1].messages
              /\ heap'[t].id = ROOT
              /\ IdsFromParents(heap'[t])]_vars

\* A Result with three labels was accepted into a tree that already held the
\* Suite of its first label: one Suite and one Test were added.
C14_Witness ==
    /\ NRuns = 1
    /\ Len(attachLog) = 1
    /\ accepted[1] = << <<LM, Lb>>, <<LM, La, Lb>> >>
    /\ attachLog[1].id = IdOf(<<LM, La, Lb>>)
    /\ Len(Nodes(heap[1])) = 5

\* C15: a runStart or runComplete record changes nothing: after a stdout handler
\* was given a chunk of such records only, the loading tree, the loaded tree, the
\* index and the pending-message buffer are what they were (the buffer is not
\* drained).
C15_LifecycleIgnored ==
    [][\A r \in Runs :
          OnStdoutData(r, LifecycleChunk) =>
             /\ heap' = heap
             /\ loadedSuite' = loadedSuite
             /\ loadingSuite' = loadingSuite
             /\ resultById' = resultById
             /\ pendingMessages' = pendingMessages]_vars

\* Lifecycle records were received while a diagnostic line was pending: the line
\* is still pending and nothing was accepted.
C15_Witness ==
    /\ NRuns = 1
    /\ delivered = 2
    /\ stream = <<"x">> \o LifecycleChunk
    /\ heap[loadingSuite] = EmptyRoot
    /\ pendingMessages = << <<"x">> >>

\* C16: starting a run, full or partial, empties the pending-message buffer and
\* makes the loading tree a fresh object, a childless root labelled 'root', so
\* that no node of an earlier tree is in it and the earlier trees stay as they
\* were.  For runs that do not overlap, every stdout handler that runs belongs
\* to the latest run, and what is attached to a Result is the non-empty
\* diagnostic lines received since that run started (or since its previous
\* Result): never a line of an earlier run.
C16_RunStartResets ==
    [][/\ IsRunStart =>
             /\ pendingMessages' = <<>>
             /\ loadingSuite' \notin DOMAIN heap
             /\ loadingSuite' # loadedSuite'
             /\ heap'[loadingSuite'] = EmptyRoot
             /\ Nodes(heap'[loadingSuite']) = <<EmptyRoot>>
             /\ \A t \in DOMAIN heap : heap'[t] = heap[t]
       /\ (~overlap' /\ delivered' # delivered) =>
             /\ procs[NRuns] = "running"
             /\ \A r \in 1..(NRuns - 1) : procs[r] # "running"
             /\ loadingSuite = NRuns
             /\ \A i \in DOMAIN attachLog' :
                   attachLog'[i].messages =
                       SelectSeq(attachLog'[i].received, NonEmptyLine)
             /\ pendingMessages' =
                   SelectSeq(received', NonEmptyLine)]_vars

\* The second of two runs that did not overlap accepted a Result with a
\* diagnostic line attached, after the process of the first run had written
\* output from which nothing was accepted.
C16_Witness ==
    /\ NRuns = 2
    /\ ~overlap
    /\ delivered = 2
    /\ accepted[1] = <<>>
    /\ Len(accepted[2]) = 1
    /\ Len(attachLog) = 1
    /\ attachLog[1].messages = << <<"y">> >>

\* C17: for runs that do not overlap, the tree a run was resolved with is the
\* loaded tree when the run resolves, no later step changes it (no streaming
\* event of a later run mutates it), and it stays the loaded tree until the next
\* full run starts.
C17_ResolvedTreeStable ==
    [][~overlap' =>
          \A r \in Runs :
             /\ (promises[r].state = "pending" /\ promises'[r].state = "resolved") =>
                   /\ promises'[r].suite # NoSuite
                   /\ promises'[r].suite = loadedSuite'
             /\ promises[r].state = "resolved" =>
                   /\ promises'[r] = promises[r]
                   /\ heap'[promises[r].suite] = heap[promises[r].suite]
                   /\ loadedSuite = promises[r].suite =>
                         \/ loadedSuite' = loadedSuite
                         \/ IsRunAllStart]_vars

\* A full run was resolved with its tree; a partial run that did not overlap it
\* has since streamed Results into a tree of its own, and the tree of the full
\* run is still loaded, with the one Result the full run put into it.
C17_Witness ==
    /\ NRuns = 2
    /\ ~overlap
    /\ promises[1] = [state |-> "resolved", suite |-> 1]
    /\ tasks[2].files = "some"
    /\ Len(accepted[1]) = 1
    /\ Len(accepted[2]) = 1
    /\ Len(TestNodes(heap[1])) = 1
    /\ loadedSuite = 1

\* The build task of run r ends with exit code 1 in this step.
IsBuildFailure(r) ==
    tasks[r].state = "executing" /\ tasks'[r].state = "ended" /\ tasks'[r].exitedWith1

\* C18: a run start overwrites the callbacks: they are those of the latest run;
\* every close and every build failure, of whichever run's process, settles the
\* promise of the latest run and no other; and a run that is unsettled when a
\* later run has started is never settled.
C18_LatestRunSettled ==
    [][/\ resolve' = Len(promises') /\ reject' = Len(promises')
       /\ \A r \in Runs :
             /\ (r < NRuns /\ promises[r].state = "pending") =>
                   promises'[r].state = "pending"
             /\ (IsClose(r) \/ IsBuildFailure(r)) =>
                   /\ promises'[NRuns].state # "pending"
                   /\ \A q \in Runs : q # NRuns => promises'[q] = promises[q]
                   /\ (promises[NRuns].state = "pending" /\ IsClose(r)) =>
                         promises'[NRuns].state = "resolved"
                   /\ (promises[NRuns].state = "pending" /\ IsBuildFailure(r)) =>
                         RejectedAsBuildFailure(NRuns)']_vars

\* Two overlapping runs: the close of the first run's process resolved the second
\* run, whose own process is still running, and the first run is unsettled.
C18_Witness ==
    /\ NRuns = 2
    /\ overlap
    /\ promises[1].state = "pending"
    /\ procs[1] = "closed"
    /\ procs[2] = "running"
    /\ promises[2].state = "resolved"

\* The trees the runner refers to: the loading tree and the loaded tree.
ReferencedTrees == {loadingSuite, loadedSuite} \ {NoSuite}

\* C19: every Test node of the loading tree and of the loaded tree has an entry
\* in the index under its id, and the labels of that entry, joined by '/' after
\* 'root/', are the id.
C19_TestsIndexed ==
    \A t \in ReferencedTrees :
        \A n \in Range(TestNodes(heap[t])) :
            /\ n.id \in DOMAIN resultById
            /\ IdOf(resultById[n.id].labels) = n.id

\* A partial run is streaming into its loading tree while the tree of an earlier
\* full run is loaded; both hold Tests, of different ids.
C19_Witness ==
    /\ NRuns = 2
    /\ loadedSuite = 1
    /\ loadingSuite = 2
    /\ tasks[2].files = "some"
    /\ Len(TestNodes(heap[1])) >= 1
    /\ Len(TestNodes(heap[2])) >= 1
    /\ Cardinality(DOMAIN resultById) = 2

HasLines == "lines" \in DOMAIN emitted

\* C20: source-location emission never fails and returns the number of events
\* it fired, summed over the files, for every tree: the promise of a call is
\* resolved with that number, which is 0 for a tree without file-bearing tests
\* (the empty root of a run that reported no tests), and a test whose offset is
\* not found gets no event.
C20_EmissionNeverFails ==
    HasLines =>
        LET lines == emitted.lines
            files == DOMAIN lines.events
        IN  /\ lines.promise.state = "resolved"
            /\ lines.promise.value =
                  SumOver([f \in files |-> Len(lines.events[f])], files)
            /\ getTestInfos(emitted.suite) = <<>> => lines.promise.value = 0
            /\ \A f \in files : \A i \in DOMAIN lines.events[f] :
                  LET id == lines.events[f][i].test
                  IN  findOffsetForTest(Tail(resultById[id].labels), Files[f])
                         # NotFound

====
